---- MODULE Spec2Model ----
(***************************************************************************)
(* Model of the project-bot webhook receiver (src/pkg/main.go).            *)
(*                                                                         *)
(* The program is one HTTP handler.  Every webhook delivery is served by   *)
(* its own goroutine; the goroutines share nothing but the remote project  *)
(* board they read and mutate through the Board Client.  A handler blocks  *)
(* at every Board Client call, so the model has one action per call: the   *)
(* call itself together with all local computation that follows it up to   *)
(* the next call or the end of the handler.                                *)
(***************************************************************************)
EXTENDS Integers, Sequences, FiniteSets, TLC

----------------------------------------------------------------------------
(* Bounds of the model.                                                    *)

\* number of handler goroutines (request slots) of the server
NumReqs == 2
\* largest number of cards on the board before the first delivery
MaxInitCards == 2

\* number of webhook deliveries handled one after the other
MaxDeliveries == 3

Reqs == 1..NumReqs

----------------------------------------------------------------------------
(* Constants of main.go.                                                   *)

OWNER == "iamhopaul123"
REPO == "penghaoh-flask-app"
PROJECT_NAME == "Sprint"
BACKLOG == "Backlog"
IN_PROGRESS == "In progress"
IN_REVIEW == "In review"
PENDING_RELEASE == "Pending release"

\* as allColumns, but without the last column
allColumnsShort == <<BACKLOG, IN_PROGRESS, IN_REVIEW>>

\* as allColumns, but starting with the column the cards end up in
allColumnsReviewFirst == <<IN_REVIEW, BACKLOG, IN_PROGRESS, PENDING_RELEASE>>

\* line 30
allColumns == <<BACKLOG, IN_PROGRESS, IN_REVIEW, PENDING_RELEASE>>

\* net/http status codes the handler writes
StatusOK == 200
StatusCreated == 201
StatusAccepted == 202
StatusBadRequest == 400
StatusUnauthorized == 401

----------------------------------------------------------------------------
(* The values the handler works with.                                      *)

\* the keys of the projColumns map of getColumns
RequiredNames == {BACKLOG, IN_PROGRESS, IN_REVIEW, PENDING_RELEASE}

\* a nil *github.ProjectColumn: its getters return the zero values
NilColumn == [ID |-> 0, Name |-> ""]

\* pull requests an event can carry: node identifier and numeric identifier
PullRequests ==
    { [NodeID |-> "PR_1", ID |-> 101], [NodeID |-> "PR_2", ID |-> 102] }

NoPR == [NodeID |-> "", ID |-> 0]
NoEvent == [type |-> "", action |-> "", pr |-> NoPR]

\* what a webhook delivery can be: a body whose signature does not verify,
\* a verified body that does not parse, or a decoded event
\* (err is the error text of the step that rejects it)
Deliveries ==
    { [valid |-> FALSE, parsed |-> FALSE, err |-> e, event |-> NoEvent] :
      e \in {"missing signature", "signature mismatch"} }
    \cup { [valid |-> TRUE, parsed |-> FALSE, err |-> "unknown event type",
            event |-> NoEvent] }
    \cup { [valid |-> TRUE, parsed |-> TRUE, err |-> "",
            event |-> [type |-> "IssuesEvent", action |-> "opened", pr |-> NoPR]] }
    \cup { [valid |-> TRUE, parsed |-> TRUE, err |-> "",
            event |-> [type |-> "PullRequestEvent", action |-> a, pr |-> p]] :
           a \in {"opened", "closed", "synchronize"}, p \in PullRequests }

NoRequest == [valid |-> FALSE, parsed |-> FALSE, err |-> "", event |-> NoEvent]

\* status codes a failing Board Client call can report
UpstreamCodes == {404, 502}

\* results of a Board Client call: success, an error with the upstream
\* response, or an error with a nil response (the request never completed)
Success == [err |-> FALSE, resp |-> TRUE, code |-> 200, msg |-> ""]
CallResults ==
    {Success}
    \cup { [err |-> TRUE, resp |-> TRUE, code |-> c, msg |-> "remote error"] :
           c \in UpstreamCodes }
    \cup { [err |-> TRUE, resp |-> FALSE, code |-> 0, msg |-> "transport error"] }

----------------------------------------------------------------------------
(* The remote project board.                                               *)

SprintProject == [ID |-> 1, Name |-> PROJECT_NAME]
OtherProject == [ID |-> 2, Name |-> "Roadmap"]

\* what ListProjects can return for the repository
ProjectLists ==
    { <<>>, <<SprintProject>>, <<OtherProject>>,
      <<SprintProject, OtherProject>>, <<OtherProject, SprintProject>> }

\* every column a board can have, in listing order
BoardColumnUniverse ==
    << [ID |-> 11, Name |-> BACKLOG], [ID |-> 12, Name |-> IN_PROGRESS],
       [ID |-> 13, Name |-> IN_REVIEW], [ID |-> 14, Name |-> PENDING_RELEASE],
       [ID |-> 15, Name |-> "Done"] >>

ColumnIDs == { BoardColumnUniverse[i].ID : i \in DOMAIN BoardColumnUniverse }

\* the listing of the columns whose identifiers are in S
ColumnListing(S) == SelectSeq(BoardColumnUniverse, LAMBDA c : c.ID \in S)

\* identifier of the board's column called name
ColumnIDOf(name) ==
    BoardColumnUniverse[CHOOSE i \in DOMAIN BoardColumnUniverse :
                            BoardColumnUniverse[i].Name = name].ID

VARIABLES
    projects,      \* the board's answer to ListProjects
    boardColumns,  \* the board's answer to ListProjectColumns
    cards,         \* column identifier -> the cards of that column, top first
    nextCardID,    \* identifier the board gives the next created card
    deliveries,    \* webhook deliveries the sender has still to make
    pc,            \* per request: position of its handler
    request,       \* per request: the delivery it serves
    event,         \* per request: the decoded event
    proj,          \* per request: the project taken from the listing
    columns,       \* per request: the map returned by getColumns
    idx,           \* per request: columns of allColumns listed so far
    acc,           \* per request: the accumulated cards
    cardID,        \* per request: the card found for the pull request, or 0
    status,        \* per request: status code written, 0 if none
    body,          \* per request: response body written
    calls          \* per request: Board Client calls issued, with results

board == <<projects, boardColumns, cards, nextCardID>>
local == <<pc, request, event, proj, columns, idx, acc, cardID, status, body, calls>>
vars == <<projects, boardColumns, cards, nextCardID, deliveries,
          pc, request, event, proj, columns, idx, acc, cardID, status, body, calls>>

----------------------------------------------------------------------------
(* Pure parts of the handler.                                              *)

Max(S) == CHOOSE x \in S : \A y \in S : y <= x

\* getColumns, lines 33-48: the map from the four names to the listed
\* column of that name (the last one listed), nil where none is listed
getColumns(listing) ==
    [name \in RequiredNames |->
        LET at == { i \in DOMAIN listing : listing[i].Name = name }
        IN  IF at = {} THEN NilColumn ELSE listing[Max(at)]]

\* as missingColumns, but reporting every key once one entry is nil
missingColumnsAnyKey(projColumns) ==
    IF \E k \in RequiredNames : projColumns[k] = NilColumn
    THEN RequiredNames ELSE {}

\* getColumns, lines 49-53: the names whose entry is still nil
missingColumns(projColumns) ==
    { k \in RequiredNames : projColumns[k] = NilColumn }

\* as isPullRequestEvent, but taking events on issues as well
isPullRequestOrIssuesEvent(e) == e.type \in {"PullRequestEvent", "IssuesEvent"}

\* lines 83-84: the event type the handler has a case for
isPullRequestEvent(e) == e.type = "PullRequestEvent"

\* as isOpened, but taking a newly pushed commit for an opening too
isOpenedOrSynchronize(e) == e.action \in {"opened", "synchronize"}

\* line 85: the pull-request actions the handler goes on to process
isOpened(e) == e.action = "opened"

\* as projectFound, but looking through the whole list
projectFoundAnywhere(projs) ==
    \E i \in DOMAIN projs : projs[i].Name = PROJECT_NAME

\* line 99: the listed project the handler requires to be PROJECT_NAME
projectFound(projs) == projs[1].Name = PROJECT_NAME

\* as findCard, but without the break: the last match wins
findCardLast(cs, pr) ==
    LET at == { i \in DOMAIN cs : cs[i].NodeID = pr.NodeID }
    IN  IF at = {} THEN 0
        ELSE cs[CHOOSE i \in at : \A j \in at : j <= i].ID

\* as findCard, but comparing the card's ID with the pull request's ID
findCardByID(cs, pr) ==
    LET at == { i \in DOMAIN cs : cs[i].ID = pr.ID }
    IN  IF at = {} THEN 0
        ELSE cs[CHOOSE i \in at : \A j \in at : i <= j].ID

\* lines 127-133: identifier of the first accumulated card whose node
\* identifier is the pull request's, 0 if there is none
findCard(cs, pr) ==
    LET at == { i \in DOMAIN cs : cs[i].NodeID = pr.NodeID }
    IN  IF at = {} THEN 0
        ELSE cs[CHOOSE i \in at : \A j \in at : i <= j].ID

\* as createColumn, but with the first column of the board
createColumnBacklog(cols) == cols[BACKLOG].ID

\* line 137: the column a new card is created in
createColumn(cols) == cols[IN_REVIEW].ID

\* lines 137-140: the options of the create-card call
createOptions(pr) == [ContentID |-> pr.ID, ContentType |-> "PullRequest"]

\* as moveOptions, but with the first column of the board as destination
moveOptionsBacklog(cols) == [Position |-> "bottom", ColumnID |-> cols[BACKLOG].ID]

\* as moveOptions, but moving to the top of the column
moveOptionsTop(cols) == [Position |-> "top", ColumnID |-> cols[IN_REVIEW].ID]

\* lines 151-154: the options of the move-card call
moveOptions(cols) == [Position |-> "bottom", ColumnID |-> cols[IN_REVIEW].ID]

\* as payloadErrorStatus, but answering every rejected payload alike
payloadErrorStatusAlike(d) == StatusBadRequest

\* lines 62 and 71: status answered to a payload that fails validation or
\* parsing
payloadErrorStatus(d) ==
    IF ~d.valid THEN StatusUnauthorized ELSE StatusBadRequest

\* lines 96 and 110: status answered when the project or column listing fails
lookupErrorStatus(res) == StatusUnauthorized

\* as remoteErrorStatus, but answering as for a failed lookup
remoteErrorStatusFixed(res) == StatusUnauthorized

\* lines 120, 143 and 157: status answered when a card listing, a create or
\* a move fails with an upstream response
remoteErrorStatus(res) == res.code

----------------------------------------------------------------------------
(* The Board Client's effect on the board.                                 *)

NodeOfContent(contentID) ==
    (CHOOSE p \in PullRequests : p.ID = contentID).NodeID

\* a card for the content is added to the column, at its top or its bottom
BoardCreate(cs, col, opts, id, top) ==
    LET card == [ID |-> id, NodeID |-> NodeOfContent(opts.ContentID)]
    IN  [cs EXCEPT ![col] = IF top THEN <<card>> \o @ ELSE Append(@, card)]

CardsWithID(cs, id) ==
    { c \in UNION { { cs[k][i] : i \in DOMAIN cs[k] } : k \in DOMAIN cs } : c.ID = id }

\* the card leaves its column and enters the destination at the position
BoardMove(cs, id, opts) ==
    LET moved == CHOOSE c \in CardsWithID(cs, id) : TRUE
        rest == [k \in DOMAIN cs |-> SelectSeq(cs[k], LAMBDA c : c.ID # id)]
    IN  IF CardsWithID(cs, id) = {} THEN cs
        ELSE [rest EXCEPT ![opts.ColumnID] =
                 IF opts.Position = "bottom" THEN Append(@, moved)
                 ELSE <<moved>> \o @]

----------------------------------------------------------------------------
(* Initial states.                                                         *)

CardNodes == { p.NodeID : p \in PullRequests }

\* the identifiers of the four columns the handler lists
ListedColumnIDs == { ColumnIDOf(name) : name \in RequiredNames }

\* n cards with identifiers 1..n, card i for content node[i] in column col[i]
InitialCards(n, node, col) ==
    [k \in ColumnIDs |->
        SelectSeq([i \in 1..n |-> [ID |-> i, NodeID |-> node[i]]],
                  LAMBDA c : col[c.ID] = k)]

\* the handler gets as far as the cards only on such a board
WellFormed(pl, S) ==
    /\ pl # <<>>
    /\ pl[1].Name = PROJECT_NAME
    /\ ListedColumnIDs \subseteq S

InitLocal ==
    /\ pc = [r \in Reqs |-> "idle"]
    /\ request = [r \in Reqs |-> NoRequest]
    /\ event = [r \in Reqs |-> NoEvent]
    /\ proj = [r \in Reqs |-> [ID |-> 0, Name |-> ""]]
    /\ columns = [r \in Reqs |-> [name \in RequiredNames |-> NilColumn]]
    /\ idx = [r \in Reqs |-> 0]
    /\ acc = [r \in Reqs |-> <<>>]
    /\ cardID = [r \in Reqs |-> 0]
    /\ status = [r \in Reqs |-> 0]
    /\ body = [r \in Reqs |-> <<>>]
    /\ calls = [r \in Reqs |-> <<>>]

\* any project list and column listing; cards (up to MaxInitCards, in the
\* four listed columns) only where the handler can get to see them
InitBoard ==
    \E pl \in ProjectLists, S \in SUBSET ColumnIDs :
        /\ projects = pl
        /\ boardColumns = ColumnListing(S)
        /\ \E n \in 0..(IF WellFormed(pl, S) THEN MaxInitCards ELSE 0) :
             \E node \in [1..n -> CardNodes], col \in [1..n -> ListedColumnIDs] :
                /\ cards = InitialCards(n, node, col)
                /\ nextCardID = n + 1

\* one webhook delivery, to any board
Init ==
    /\ InitBoard
    /\ InitLocal
    /\ deliveries = 1

\* NumReqs deliveries that may overlap, to a well-formed board that is empty
\* or holds one card, in "Backlog"
InitConcurrent ==
    /\ projects = <<SprintProject>>
    /\ boardColumns = ColumnListing(ColumnIDs)
    /\ \E n \in {0, 1} :
         \E node \in [1..n -> CardNodes], col \in [1..n -> {ColumnIDOf(BACKLOG)}] :
            /\ cards = InitialCards(n, node, col)
            /\ nextCardID = n + 1
    /\ InitLocal
    /\ deliveries = NumReqs

\* n cards with identifiers first..first+n-1, the i-th of them for content
\* node[i] in column col[i]
InitialCardsFrom(first, n, node, col) ==
    [k \in ColumnIDs |->
        SelectSeq([i \in 1..n |-> [ID |-> first + i - 1, NodeID |-> node[i]]],
                  LAMBDA c : col[c.ID - first + 1] = k)]

\* one delivery to a well-formed board one of whose cards is reported with
\* identifier 0 (GetID() of a card that carries no id)
InitZeroID ==
    /\ projects = <<SprintProject>>
    /\ boardColumns = ColumnListing(ColumnIDs)
    /\ \E n \in 1..MaxInitCards :
         \E node \in [1..n -> CardNodes], col \in [1..n -> ListedColumnIDs] :
            /\ cards = InitialCardsFrom(0, n, node, col)
            /\ nextCardID = n
    /\ InitLocal
    /\ deliveries = 1

\* MaxDeliveries deliveries to a well-formed board that holds at most one
\* card for each pull request, in any of its columns; the cards the board
\* creates later have identifiers above those of the initial cards
InitSerial ==
    /\ projects = <<SprintProject>>
    /\ boardColumns = ColumnListing(ColumnIDs)
    /\ \E n \in 0..MaxInitCards :
         \E node \in [1..n -> CardNodes], col \in [1..n -> ColumnIDs] :
            /\ \A i, j \in 1..n : node[i] = node[j] => i = j
            /\ cards = InitialCards(n, node, col)
    /\ nextCardID = MaxInitCards + 1
    /\ InitLocal
    /\ deliveries = MaxDeliveries

----------------------------------------------------------------------------
(* The handler.                                                            *)

\* http.Error(w, text, code) or w.WriteHeader(code), then return
Respond(r, code, text) ==
    /\ status' = [status EXCEPT ![r] = code]
    /\ body' = [body EXCEPT ![r] = text]
    /\ pc' = [pc EXCEPT ![r] = "done"]

\* a run-time panic: net/http recovers it and closes the connection, so
\* the request gets no response
Panic(r) ==
    /\ pc' = [pc EXCEPT ![r] = "panic"]
    /\ UNCHANGED <<status, body>>

Goto(r, label) ==
    /\ pc' = [pc EXCEPT ![r] = label]
    /\ UNCHANGED <<status, body>>

\* the call enters the request's log: what was asked, the result, and on
\* success the value returned
Call(r, op, target, opts, res, ret) ==
    calls' = [calls EXCEPT ![r] =
                 Append(@, [op |-> op, target |-> target, opts |-> opts,
                            res |-> res,
                            ret |-> IF res.err THEN <<>> ELSE ret])]

\* lines 57-88 and 162-165: a delivery arrives; the handler validates and
\* parses it and dispatches on the event
Receive(r) ==
    /\ pc[r] = "idle"
    /\ deliveries > 0
    /\ deliveries' = deliveries - 1
    /\ \E d \in Deliveries :
         /\ request' = [request EXCEPT ![r] = d]
         /\ event' = [event EXCEPT ![r] = d.event]
         /\ IF ~d.valid \/ ~d.parsed
              THEN Respond(r, payloadErrorStatus(d), <<d.err>>)
            ELSE IF isPullRequestEvent(d.event)
              THEN IF ~isOpened(d.event)
                     THEN Respond(r, StatusAccepted, <<>>)
                     ELSE Goto(r, "ListProjects")
            \* default case: nothing is written, net/http answers 200
            ELSE Respond(r, StatusOK, <<>>)
    /\ UNCHANGED <<board, proj, columns, idx, acc, cardID, calls>>

\* as ListProjects, but trying the listing again when it fails
ListProjectsRetry(r) ==
    /\ pc[r] = "ListProjects"
    /\ \E res \in CallResults :
         /\ Call(r, "ListProjects", <<OWNER, REPO>>, <<>>, res, projects)
         /\ IF res.err
              THEN /\ Goto(r, "ListProjects")
                   /\ UNCHANGED proj
            ELSE IF projects = <<>>
              THEN /\ Panic(r)
                   /\ UNCHANGED proj
            ELSE IF ~projectFound(projects)
              THEN /\ Respond(r, StatusUnauthorized,
                              <<"project", projects[1].Name, "not found">>)
                   /\ UNCHANGED proj
            ELSE /\ Goto(r, "ListProjectColumns")
                 /\ proj' = [proj EXCEPT ![r] = projects[1]]
    /\ UNCHANGED <<board, deliveries, request, event, columns, idx, acc, cardID>>

\* lines 92-104
ListProjects(r) ==
    /\ pc[r] = "ListProjects"
    /\ \E res \in CallResults :
         /\ Call(r, "ListProjects", <<OWNER, REPO>>, <<>>, res, projects)
         /\ IF res.err
              THEN /\ Respond(r, lookupErrorStatus(res), <<res.msg>>)
                   /\ UNCHANGED proj
            ELSE IF projects = <<>>
              THEN /\ Panic(r)
                   /\ UNCHANGED proj
            ELSE IF ~projectFound(projects)
              THEN /\ Respond(r, StatusUnauthorized,
                              <<"project", projects[1].Name, "not found">>)
                   /\ UNCHANGED proj
            ELSE /\ Goto(r, "ListProjectColumns")
                 /\ proj' = [proj EXCEPT ![r] = projects[1]]
    /\ UNCHANGED <<board, deliveries, request, event, columns, idx, acc, cardID>>

\* lines 106-112 with getColumns, lines 32-55
ListProjectColumns(r) ==
    /\ pc[r] = "ListProjectColumns"
    /\ \E res \in CallResults :
         /\ Call(r, "ListProjectColumns", proj[r].ID, <<>>, res, boardColumns)
         /\ IF res.err
              THEN /\ Respond(r, lookupErrorStatus(res), <<res.msg>>)
                   /\ UNCHANGED columns
            ELSE LET projColumns == getColumns(boardColumns)
                 IN  IF missingColumns(projColumns) # {}
                       \* the map is ranged over in no fixed order
                       THEN /\ \E k \in missingColumns(projColumns) :
                                  Respond(r, StatusUnauthorized,
                                          <<"column", k, "does not exist">>)
                            /\ UNCHANGED columns
                       ELSE /\ Goto(r, "ListProjectCards")
                            /\ columns' = [columns EXCEPT ![r] = projColumns]
    /\ UNCHANGED <<board, deliveries, request, event, proj, idx, acc, cardID>>

\* lines 114-133: one round of the loop over allColumns; after the last
\* round the search for the pull request's card
ListProjectCards(r) ==
    /\ pc[r] = "ListProjectCards"
    /\ LET col == columns[r][allColumns[idx[r] + 1]].ID
       IN  \E res \in CallResults :
             /\ Call(r, "ListProjectCards", col, <<>>, res, cards[col])
             /\ IF res.err
                  THEN /\ IF res.resp
                            THEN Respond(r, remoteErrorStatus(res), <<res.msg>>)
                            ELSE Panic(r)
                       /\ UNCHANGED <<idx, acc, cardID>>
                ELSE LET all == acc[r] \o cards[col]
                         found == findCard(all, event[r].pr)
                     IN  /\ acc' = [acc EXCEPT ![r] = all]
                         /\ idx' = [idx EXCEPT ![r] = @ + 1]
                         /\ IF idx[r] + 1 < Len(allColumns)
                              THEN /\ Goto(r, "ListProjectCards")
                                   /\ UNCHANGED cardID
                              ELSE /\ cardID' = [cardID EXCEPT ![r] = found]
                                   /\ Goto(r, IF found = 0 THEN "CreateProjectCard"
                                                           ELSE "MoveProjectCard")
    /\ UNCHANGED <<board, deliveries, request, event, proj, columns>>

\* as CreateProjectCard, but looking at the board again before creating:
\* when the board by now holds a card for the pull request none is added
CreateProjectCardOnce(r) ==
    /\ pc[r] = "CreateProjectCard"
    /\ LET col == createColumn(columns[r])
           opts == createOptions(event[r].pr)
           held == \E k \in DOMAIN cards : \E i \in DOMAIN cards[k] :
                      cards[k][i].NodeID = event[r].pr.NodeID
       IN  /\ Call(r, "CreateProjectCard", col, opts, Success, <<>>)
           /\ IF held
                THEN UNCHANGED <<cards, nextCardID>>
                ELSE /\ cards' = BoardCreate(cards, col, opts, nextCardID, TRUE)
                     /\ nextCardID' = nextCardID + 1
           /\ Respond(r, StatusCreated, <<>>)
    /\ UNCHANGED <<projects, boardColumns, deliveries, request, event, proj,
                   columns, idx, acc, cardID>>

\* lines 136-148
CreateProjectCard(r) ==
    /\ pc[r] = "CreateProjectCard"
    /\ LET col == createColumn(columns[r])
           opts == createOptions(event[r].pr)
       IN  \E res \in CallResults :
             /\ Call(r, "CreateProjectCard", col, opts, res, <<>>)
             /\ IF res.err
                  THEN /\ IF res.resp
                            THEN Respond(r, remoteErrorStatus(res), <<res.msg>>)
                            ELSE Panic(r)
                       /\ UNCHANGED <<cards, nextCardID>>
                ELSE /\ \E top \in BOOLEAN :
                          cards' = BoardCreate(cards, col, opts, nextCardID, top)
                     /\ nextCardID' = nextCardID + 1
                     /\ Respond(r, StatusCreated, <<>>)
    /\ UNCHANGED <<projects, boardColumns, deliveries, request, event, proj, columns,
                   idx, acc, cardID>>

\* lines 150-161
MoveProjectCard(r) ==
    /\ pc[r] = "MoveProjectCard"
    /\ LET opts == moveOptions(columns[r])
       IN  \E res \in CallResults :
             /\ Call(r, "MoveProjectCard", cardID[r], opts, res, <<>>)
             /\ IF res.err
                  THEN /\ IF res.resp
                            THEN Respond(r, remoteErrorStatus(res), <<res.msg>>)
                            ELSE Panic(r)
                       /\ UNCHANGED cards
                ELSE /\ cards' = BoardMove(cards, cardID[r], opts)
                     /\ Respond(r, StatusCreated, <<>>)
    /\ UNCHANGED <<projects, boardColumns, nextCardID, deliveries, request, event, proj,
                   columns, idx, acc, cardID>>

Next ==
    \E r \in Reqs :
        \/ Receive(r)
        \/ ListProjects(r)
        \/ ListProjectColumns(r)
        \/ ListProjectCards(r)
        \/ CreateProjectCard(r)
        \/ MoveProjectCard(r)

\* a delivery is received only while no invocation is under way
SerialReceive(r) ==
    /\ \A q \in Reqs : pc[q] = "idle"
    /\ Receive(r)

\* the handler has returned (or panicked): its goroutine and its local
\* variables are gone
Return(r) ==
    /\ pc[r] \in {"done", "panic"}
    /\ pc' = [pc EXCEPT ![r] = "idle"]
    /\ request' = [request EXCEPT ![r] = NoRequest]
    /\ event' = [event EXCEPT ![r] = NoEvent]
    /\ proj' = [proj EXCEPT ![r] = [ID |-> 0, Name |-> ""]]
    /\ columns' = [columns EXCEPT ![r] = [name \in RequiredNames |-> NilColumn]]
    /\ idx' = [idx EXCEPT ![r] = 0]
    /\ acc' = [acc EXCEPT ![r] = <<>>]
    /\ cardID' = [cardID EXCEPT ![r] = 0]
    /\ status' = [status EXCEPT ![r] = 0]
    /\ body' = [body EXCEPT ![r] = <<>>]
    /\ calls' = [calls EXCEPT ![r] = <<>>]
    /\ UNCHANGED <<board, deliveries>>

\* the deliveries are handled one at a time
NextSerial ==
    \E r \in Reqs :
        \/ SerialReceive(r)
        \/ ListProjects(r)
        \/ ListProjectColumns(r)
        \/ ListProjectCards(r)
        \/ CreateProjectCard(r)
        \/ MoveProjectCard(r)
        \/ Return(r)

Spec == Init /\ [][Next]_vars

SpecSerial == InitSerial /\ [][NextSerial]_vars

SpecConcurrent == InitConcurrent /\ [][Next]_vars

SpecZeroID == InitZeroID /\ [][Next]_vars

----------------------------------------------------------------------------
(* What a request did, read off its log of Board Client calls.             *)

Range(f) == { f[i] : i \in DOMAIN f }

Finished(r) == pc[r] \in {"done", "panic"}

OpenedPR(r) ==
    /\ event[r].type = "PullRequestEvent"
    /\ event[r].action = "opened"

CallsTo(r, op) == { i \in DOMAIN calls[r] : calls[r][i].op = op }

SucceededCallsTo(r, op) == { i \in CallsTo(r, op) : ~calls[r][i].res.err }

ReadOps == {"ListProjects", "ListProjectColumns", "ListProjectCards"}
MutationOps == {"CreateProjectCard", "MoveProjectCard"}

Reads(r) == { i \in DOMAIN calls[r] : calls[r][i].op \in ReadOps }
Mutations(r) == { i \in DOMAIN calls[r] : calls[r][i].op \in MutationOps }

\* the project list, the column list and the listing of each of the four
\* columns have all succeeded
AllReadsSucceeded(r) ==
    /\ SucceededCallsTo(r, "ListProjects") # {}
    /\ SucceededCallsTo(r, "ListProjectColumns") # {}
    /\ \A name \in RequiredNames :
          \E i \in SucceededCallsTo(r, "ListProjectCards") :
              calls[r][i].target = ColumnIDOf(name)

\* the cards the card listings returned to the request
ListedCards(r) ==
    UNION { Range(calls[r][i].ret) : i \in CallsTo(r, "ListProjectCards") }

\* those of them that are for the request's pull request
MatchingListed(r) ==
    { c \in ListedCards(r) : c.NodeID = event[r].pr.NodeID }

----------------------------------------------------------------------------
(* Claims.                                                                 *)

\* C1: an "opened" pull-request event whose six reads all succeed and whose
\* listings hold no card with the pull request's node identifier makes the
\* handler issue exactly one create-card call, on the "In review" column,
\* with the pull request's numeric identifier as content ID and content
\* type "PullRequest", and no move-card call; when the create succeeds the
\* response is 201.
C1_CreateWhenNoCard ==
    \A r \in Reqs :
        (OpenedPR(r) /\ Finished(r) /\ AllReadsSucceeded(r)
            /\ MatchingListed(r) = {})
        => /\ Cardinality(CallsTo(r, "CreateProjectCard")) = 1
           /\ CallsTo(r, "MoveProjectCard") = {}
           /\ \A i \in CallsTo(r, "CreateProjectCard") :
                /\ calls[r][i].target = ColumnIDOf(IN_REVIEW)
                /\ calls[r][i].opts = [ContentID |-> event[r].pr.ID,
                                       ContentType |-> "PullRequest"]
                /\ ~calls[r][i].res.err
                     => pc[r] = "done" /\ status[r] = StatusCreated

\* a request that listed another pull request's card, created its own card
\* and answered 201
C1_Witness ==
    \E r \in Reqs :
        /\ OpenedPR(r) /\ Finished(r) /\ AllReadsSucceeded(r)
        /\ MatchingListed(r) = {}
        /\ ListedCards(r) # {}
        /\ SucceededCallsTo(r, "CreateProjectCard") # {}
        /\ status[r] = StatusCreated

\* C2: an "opened" pull-request event whose six reads all succeed and whose
\* listings hold a card with the pull request's node identifier, in any of
\* the four columns, makes the handler issue exactly one move-card call,
\* for such a card's ID, to the bottom of the "In review" column, and no
\* create-card call; when the move succeeds the response is 201.
C2_MoveWhenCardExists ==
    \A r \in Reqs :
        (OpenedPR(r) /\ Finished(r) /\ AllReadsSucceeded(r)
            /\ MatchingListed(r) # {})
        => /\ Cardinality(CallsTo(r, "MoveProjectCard")) = 1
           /\ CallsTo(r, "CreateProjectCard") = {}
           /\ \A i \in CallsTo(r, "MoveProjectCard") :
                /\ calls[r][i].target \in { c.ID : c \in MatchingListed(r) }
                /\ calls[r][i].opts = [Position |-> "bottom",
                                       ColumnID |-> ColumnIDOf(IN_REVIEW)]
                /\ ~calls[r][i].res.err
                     => pc[r] = "done" /\ status[r] = StatusCreated

\* a request whose pull request had its card in "Backlog", moved that card
\* and answered 201
C2_Witness ==
    \E r \in Reqs :
        /\ OpenedPR(r) /\ Finished(r) /\ AllReadsSucceeded(r)
        /\ \E i \in CallsTo(r, "ListProjectCards"), j \in SucceededCallsTo(r, "MoveProjectCard") :
              /\ calls[r][i].target = ColumnIDOf(BACKLOG)
              /\ \E c \in Range(calls[r][i].ret) :
                    /\ c.NodeID = event[r].pr.NodeID
                    /\ calls[r][j].target = c.ID
        /\ status[r] = StatusCreated
        /\ \E k \in DOMAIN cards[ColumnIDOf(IN_REVIEW)] :
              cards[ColumnIDOf(IN_REVIEW)][k].NodeID = event[r].pr.NodeID

\* C3: a pull-request event whose action is not "opened" makes the handler
\* issue no Board Client call at all and answer 202.
C3_NotOpenedIsNoOp ==
    \A r \in Reqs :
        (pc[r] # "idle" /\ event[r].type = "PullRequestEvent"
            /\ event[r].action # "opened")
        => /\ calls[r] = <<>>
           /\ pc[r] = "done"
           /\ status[r] = StatusAccepted
           /\ body[r] = <<>>

\* a "synchronize" event answered 202
C3_Witness ==
    \E r \in Reqs :
        /\ event[r].type = "PullRequestEvent"
        /\ event[r].action = "synchronize"
        /\ pc[r] = "done"
        /\ status[r] = StatusAccepted
        /\ calls[r] = <<>>

\* the required column names a column listing does not hold
AbsentFrom(listing) ==
    { name \in RequiredNames : \A i \in DOMAIN listing : listing[i].Name # name }

\* C4: when the column listing succeeds but lacks one of the four required
\* names, the handling of an "opened" event ends with status 401 and the
\* text "column <name> does not exist" for a name that is absent from the
\* listing, and the request issues no card listing, create or move.
C4_MissingColumnFails ==
    \A r \in Reqs :
        \A i \in SucceededCallsTo(r, "ListProjectColumns") :
            AbsentFrom(calls[r][i].ret) # {}
            => /\ pc[r] = "done"
               /\ status[r] = StatusUnauthorized
               /\ \E k \in AbsentFrom(calls[r][i].ret) :
                     body[r] = <<"column", k, "does not exist">>
               /\ CallsTo(r, "ListProjectCards") = {}
               /\ Mutations(r) = {}

\* a listing that lacks two of the names while holding "In review"
C4_Witness ==
    \E r \in Reqs :
        \E i \in SucceededCallsTo(r, "ListProjectColumns") :
            /\ OpenedPR(r)
            /\ Cardinality(AbsentFrom(calls[r][i].ret)) = 2
            /\ IN_REVIEW \notin AbsentFrom(calls[r][i].ret)
            /\ pc[r] = "done"
            /\ status[r] = StatusUnauthorized

\* C5: when the project listing succeeds and its first project is not named
\* "Sprint", even if a later one is, the handling of an "opened" event ends
\* with status 401 and a "project not found" text, and the request issues
\* no column listing, card listing, create or move.
C5_WrongFirstProjectFails ==
    \A r \in Reqs :
        \A i \in SucceededCallsTo(r, "ListProjects") :
            (calls[r][i].ret # <<>> /\ calls[r][i].ret[1].Name # PROJECT_NAME)
            => /\ pc[r] = "done"
               /\ status[r] = StatusUnauthorized
               /\ body[r] = <<"project", calls[r][i].ret[1].Name, "not found">>
               /\ Len(calls[r]) = 1

\* the project named "Sprint" is listed second
C5_Witness ==
    \E r \in Reqs :
        \E i \in SucceededCallsTo(r, "ListProjects") :
            /\ OpenedPR(r)
            /\ Len(calls[r][i].ret) = 2
            /\ calls[r][i].ret[2].Name = PROJECT_NAME
            /\ pc[r] = "done"
            /\ status[r] = StatusUnauthorized

\* C6: a handler issues at most one mutating call (create or move), exactly
\* one once it has ended with all six reads successful; it issues at most
\* one project listing, one column listing and four card listings; and a
\* mutating call comes only after six successful reads.
C6_CallBudget ==
    \A r \in Reqs :
        /\ Cardinality(Mutations(r)) <= 1
        /\ (Finished(r) /\ AllReadsSucceeded(r)) => Cardinality(Mutations(r)) = 1
        /\ Cardinality(CallsTo(r, "ListProjects")) <= 1
        /\ Cardinality(CallsTo(r, "ListProjectColumns")) <= 1
        /\ Cardinality(CallsTo(r, "ListProjectCards")) <= 4
        /\ \A m \in Mutations(r) :
              /\ AllReadsSucceeded(r)
              /\ Reads(r) = 1..6
              /\ m = 7
              /\ \A i \in Reads(r) : ~calls[r][i].res.err

\* a handler that made its six reads and then one mutating call, which failed
C6_Witness ==
    \E r \in Reqs :
        /\ Finished(r)
        /\ Cardinality(Reads(r)) = 6
        /\ \E m \in Mutations(r) : calls[r][m].res.err /\ calls[r][m].res.resp
        /\ Cardinality(Mutations(r)) = 1

\* the cards on the board for the pull request
BoardCardsFor(pr) ==
    { c \in UNION { Range(cards[k]) : k \in DOMAIN cards } : c.NodeID = pr.NodeID }

\* the request has listed the four columns and seen no card for its pull
\* request
SawNoCard(r) ==
    /\ OpenedPR(r)
    /\ AllReadsSucceeded(r)
    /\ MatchingListed(r) = {}

\* C7: nothing in the handler keeps two overlapping invocations for the same
\* pull request from both creating a card: whenever two requests for one
\* pull request have both listed the four columns without seeing a card for
\* it, neither ever issues a move-card call, each goes on to create-card
\* whatever the board holds by then, and once both creates have succeeded
\* the board holds two cards for that pull request.
C7_DuplicateCardRace ==
    \A r1, r2 \in Reqs :
        (r1 # r2 /\ SawNoCard(r1) /\ SawNoCard(r2)
            /\ event[r1].pr = event[r2].pr)
        => /\ CallsTo(r1, "MoveProjectCard") = {}
           /\ pc[r1] \in {"CreateProjectCard", "done", "panic"}
           /\ Finished(r1) => CallsTo(r1, "CreateProjectCard") # {}
           /\ (SucceededCallsTo(r1, "CreateProjectCard") # {}
                 /\ SucceededCallsTo(r2, "CreateProjectCard") # {})
              => Cardinality(BoardCardsFor(event[r1].pr)) >= 2

\* both invocations created a card: two cards for one pull request
C7_Witness ==
    \E r1, r2 \in Reqs :
        /\ r1 # r2
        /\ SawNoCard(r1) /\ SawNoCard(r2)
        /\ event[r1].pr = event[r2].pr
        /\ SucceededCallsTo(r1, "CreateProjectCard") # {}
        /\ SucceededCallsTo(r2, "CreateProjectCard") # {}
        /\ status[r1] = StatusCreated /\ status[r2] = StatusCreated
        /\ Cardinality(BoardCardsFor(event[r1].pr)) = 2

\* the last call of the request failed and the Board Client handed back the
\* upstream response
LastCallFailedWithResponse(r) ==
    /\ calls[r] # <<>>
    /\ calls[r][Len(calls[r])].res.err
    /\ calls[r][Len(calls[r])].res.resp

LastCall(r) == calls[r][Len(calls[r])]

\* C8 as stated: after any failed Board Client call (project listing, column
\* listing, card listing, create or move) the response carries the status
\* code the upstream reported for that call.
C8_AsStated ==
    \A r \in Reqs :
        (Finished(r) /\ LastCallFailedWithResponse(r))
        => status[r] = LastCall(r).res.code

\* C8, amended: after a failed card listing, create or move for which the
\* upstream reported a status code, the response carries that code; after
\* a failed project listing or column listing the response is 401,
\* whatever code the upstream reported.
C8_ErrorStatus ==
    \A r \in Reqs :
        (Finished(r) /\ LastCallFailedWithResponse(r))
        => /\ pc[r] = "done"
           /\ LastCall(r).op \in {"ListProjectCards", "CreateProjectCard",
                                  "MoveProjectCard"}
                => status[r] = LastCall(r).res.code
           /\ LastCall(r).op \in {"ListProjects", "ListProjectColumns"}
                => status[r] = StatusUnauthorized

\* a move-card call failed upstream with 502, and the response is 502
C8_Witness ==
    \E r \in Reqs :
        /\ Finished(r) /\ LastCallFailedWithResponse(r)
        /\ LastCall(r).op = "MoveProjectCard"
        /\ LastCall(r).res.code = 502
        /\ status[r] = 502

\* C9 as stated: when a card listing, create or move fails and the Board
\* Client hands back no response, the handler still completes the request
\* and answers with an error status.
C9_NoResponseStillAnswered ==
    \A r \in Reqs :
        (calls[r] # <<>> /\ LastCall(r).res.err /\ ~LastCall(r).res.resp
            /\ LastCall(r).op \in {"ListProjectCards", "CreateProjectCard",
                                   "MoveProjectCard"})
        => /\ pc[r] = "done"
           /\ status[r] >= StatusBadRequest

\* C10: a payload that fails signature validation is answered 401, one that
\* validates but does not parse into an event is answered 400, each with
\* the error text as body, and neither leads to any Board Client call.
C10_RejectedPayload ==
    \A r \in Reqs :
        /\ (pc[r] # "idle" /\ ~request[r].valid)
           => /\ pc[r] = "done"
              /\ status[r] = StatusUnauthorized
              /\ body[r] = <<request[r].err>>
              /\ calls[r] = <<>>
        /\ (pc[r] # "idle" /\ request[r].valid /\ ~request[r].parsed)
           => /\ pc[r] = "done"
              /\ status[r] = StatusBadRequest
              /\ body[r] = <<request[r].err>>
              /\ calls[r] = <<>>

\* a payload with a wrong signature, answered 401 with the error's text
C10_Witness ==
    \E r \in Reqs :
        /\ pc[r] = "done"
        /\ ~request[r].valid
        /\ request[r].err = "signature mismatch"
        /\ status[r] = StatusUnauthorized
        /\ body[r] = <<"signature mismatch">>

\* C11: a validated, parseable event that is not a pull-request event makes
\* the handler issue no Board Client call, report no error and write no
\* body: the request ends as a plain acknowledgment, status 200.
C11_OtherEventAcknowledged ==
    \A r \in Reqs :
        (pc[r] # "idle" /\ request[r].valid /\ request[r].parsed
            /\ event[r].type # "PullRequestEvent")
        => /\ calls[r] = <<>>
           /\ pc[r] = "done"
           /\ status[r] = StatusOK
           /\ body[r] = <<>>

\* an event on an issue, acknowledged
C11_Witness ==
    \E r \in Reqs :
        /\ request[r].valid /\ request[r].parsed
        /\ event[r].type = "IssuesEvent"
        /\ pc[r] = "done"
        /\ status[r] = StatusOK
        /\ calls[r] = <<>>

\* C12: within one invocation no Board Client call is retried and the first
\* failing call ends the handler: project list, column list, create-card
\* and move-card are each issued at most once, a column's cards are listed
\* at most once, and a call that returned an error is the last call of the
\* invocation, which has ended.
C12_NoRetryFirstErrorAborts ==
    \A r \in Reqs :
        /\ \A op \in {"ListProjects", "ListProjectColumns",
                      "CreateProjectCard", "MoveProjectCard"} :
              Cardinality(CallsTo(r, op)) <= 1
        /\ \A i, j \in CallsTo(r, "ListProjectCards") :
              calls[r][i].target = calls[r][j].target => i = j
        /\ \A i \in DOMAIN calls[r] :
              calls[r][i].res.err => i = Len(calls[r]) /\ Finished(r)

\* the listing of the first column failed: three calls, and the end
C12_Witness ==
    \E r \in Reqs :
        /\ Finished(r)
        /\ Len(calls[r]) = 3
        /\ calls[r][3].op = "ListProjectCards"
        /\ calls[r][3].res.err
        /\ status[r] = calls[r][3].res.code

\* the order in which the columns are to be listed
ListingOrder == <<BACKLOG, IN_PROGRESS, IN_REVIEW, PENDING_RELEASE>>

\* the card listings of the request, in the order they were issued
CardListings(r) == SelectSeq(calls[r], LAMBDA c : c.op = "ListProjectCards")

RECURSIVE ReturnedCards(_)
\* the cards a sequence of calls returned, one after the other
ReturnedCards(cs) ==
    IF cs = <<>> THEN <<>> ELSE Head(cs).ret \o ReturnedCards(Tail(cs))

\* C13: the card listings are issued in the order Backlog, In progress,
\* In review, Pending release, each for that column's identifier, and their
\* results are accumulated in that order; when the listing of a column
\* fails, no later column is listed and no create or move is issued.
C13_ListingOrder ==
    \A r \in Reqs :
        LET L == CardListings(r)
        IN  /\ Len(L) <= Len(ListingOrder)
            /\ \A j \in DOMAIN L : L[j].target = ColumnIDOf(ListingOrder[j])
            /\ acc[r] = ReturnedCards(L)
            /\ \A j \in DOMAIN L :
                  L[j].res.err => /\ j = Len(L)
                                  /\ Mutations(r) = {}
                                  /\ Finished(r)

\* "Backlog" returned a card, then the listing of "In progress" failed
C13_Witness ==
    \E r \in Reqs :
        LET L == CardListings(r)
        IN  /\ Len(L) = 2
            /\ L[1].ret # <<>>
            /\ L[2].res.err
            /\ acc[r] = L[1].ret
            /\ Finished(r)
            /\ Mutations(r) = {}

\* the successful listing of the j-th column of the order, as logged
ListingOf(r, j) ==
    calls[r][CHOOSE i \in SucceededCallsTo(r, "ListProjectCards") :
                 calls[r][i].target = ColumnIDOf(ListingOrder[j])]

\* positions, in what the listing of the j-th column returned, of the cards
\* for the request's pull request
MatchesIn(r, j) ==
    { k \in DOMAIN ListingOf(r, j).ret :
        ListingOf(r, j).ret[k].NodeID = event[r].pr.NodeID }

\* the matching card of the earliest column, and in it the earliest listed
FirstMatch(r) ==
    LET j0 == CHOOSE j \in DOMAIN ListingOrder :
                 /\ MatchesIn(r, j) # {}
                 /\ \A i \in DOMAIN ListingOrder : MatchesIn(r, i) # {} => j <= i
        k0 == CHOOSE k \in MatchesIn(r, j0) : \A m \in MatchesIn(r, j0) : k <= m
    IN  ListingOf(r, j0).ret[k0]

\* C14: when several listed cards have the pull request's node identifier,
\* the handler issues exactly one move-card call and no create-card call,
\* and the card moved is the first match in accumulation order: the one in
\* the earliest column of the order Backlog, In progress, In review,
\* Pending release, and in that column the earliest listed.
C14_FirstMatchWins ==
    \A r \in Reqs :
        (OpenedPR(r) /\ Finished(r) /\ AllReadsSucceeded(r)
            /\ Cardinality(MatchingListed(r)) >= 2)
        => /\ Cardinality(CallsTo(r, "MoveProjectCard")) = 1
           /\ CallsTo(r, "CreateProjectCard") = {}
           /\ \A i \in CallsTo(r, "MoveProjectCard") :
                 calls[r][i].target = FirstMatch(r).ID

\* two cards for the pull request, the one with the larger identifier in
\* "Backlog", the other in "In review": the one in "Backlog" is moved
C14_Witness ==
    \E r \in Reqs :
        /\ OpenedPR(r) /\ Finished(r) /\ AllReadsSucceeded(r)
        /\ Cardinality(MatchingListed(r)) = 2
        /\ MatchesIn(r, 1) # {} /\ MatchesIn(r, 3) # {}
        /\ \A c \in MatchingListed(r) : c.ID <= FirstMatch(r).ID
        /\ \E i \in SucceededCallsTo(r, "MoveProjectCard") :
              calls[r][i].target = FirstMatch(r).ID
        /\ status[r] = StatusCreated

\* C15: whether the handler creates or moves depends only on whether a
\* listed card has the pull request's node identifier, whatever that card's
\* ID is, 0 included: create-card is issued if and only if no listed card
\* matches, move-card if and only if one does.
C15_BranchOnExistence ==
    \A r \in Reqs :
        (OpenedPR(r) /\ Finished(r) /\ AllReadsSucceeded(r))
        => /\ CallsTo(r, "CreateProjectCard") # {} <=> MatchingListed(r) = {}
           /\ CallsTo(r, "MoveProjectCard") # {} <=> MatchingListed(r) # {}

\* C16: no invocation crashes part-way, whatever the Board Client returns:
\* not on an empty project list, not on an error that comes with no
\* response; an invocation that has ended has answered with a status.
C16_NeverCrashes ==
    \A r \in Reqs :
        /\ pc[r] # "panic"
        /\ pc[r] = "done" => status[r] # 0

\* every card of the board is in one of the four columns the handler lists
AllCardsListed ==
    \A k \in ColumnIDs \ ListedColumnIDs : cards[k] = <<>>

CardsOf(cs) == UNION { Range(cs[k]) : k \in DOMAIN cs }

\* the column of a board that holds the card
ColumnOf(cs, c) == CHOOSE k \in DOMAIN cs : c \in Range(cs[k])

\* request r completes the Board Client call it is waiting at
Completes(r, label) == pc[r] = label /\ pc'[r] = "done"

\* after a 201 the pull request has a card in "In review"
HandledCardInReview ==
    \A r \in Reqs :
        (OpenedPR(r) /\ status[r] = StatusCreated)
        => \E c \in Range(cards[ColumnIDOf(IN_REVIEW)]) :
               c.NodeID = event[r].pr.NodeID

\* a step removes no card; a card that changes column goes to "In review"
\* and is for the pull request of the invocation that moves it; a new card
\* is in "In review" and is for the pull request of the invocation that
\* creates it
BoardFrame ==
    /\ \A c \in CardsOf(cards) :
          /\ c \in CardsOf(cards')
          /\ ColumnOf(cards', c) # ColumnOf(cards, c)
             => /\ ColumnOf(cards', c) = ColumnIDOf(IN_REVIEW)
                /\ \E r \in Reqs : /\ Completes(r, "MoveProjectCard")
                                   /\ c.NodeID = event[r].pr.NodeID
    /\ \A c \in CardsOf(cards') \ CardsOf(cards) :
          /\ ColumnOf(cards', c) = ColumnIDOf(IN_REVIEW)
          /\ \E r \in Reqs : /\ Completes(r, "CreateProjectCard")
                             /\ c.NodeID = event[r].pr.NodeID

\* C18: an invocation changes the board only for the pull request of its
\* event: after a 201 that pull request has a card in "In review"; in every
\* step the cards of other pull requests keep their column, and no card is
\* created in or moved to a column other than "In review".
C18_OnlyOwnCardToInReview ==
    []HandledCardInReview /\ [][BoardFrame]_vars

\* the invocation moved its card out of "Backlog" to "In review" while the
\* other pull request's card stayed in "Backlog"
C18_Witness ==
    \E r \in Reqs :
        /\ OpenedPR(r) /\ status[r] = StatusCreated
        /\ SucceededCallsTo(r, "MoveProjectCard") # {}
        /\ Len(ListingOf(r, 1).ret) = 2
        /\ Len(cards[ColumnIDOf(BACKLOG)]) = 1
        /\ cards[ColumnIDOf(BACKLOG)][1].NodeID # event[r].pr.NodeID
        /\ \E c \in Range(cards[ColumnIDOf(IN_REVIEW)]) :
               c.NodeID = event[r].pr.NodeID

====
